---- MODULE Spec2Model ----
(***************************************************************************)
(* State-machine model of src/app.py: the Flask front-end that connects a  *)
(* Telethon client, and the batch CSV pipeline _run_csv_process_async      *)
(* (fetch each manifest row, then publish it when a session is available). *)
(*                                                                         *)
(* Requests are served one at a time (spec section 5: single-threaded,     *)
(* strictly sequential); a batch run and a single-link download are taken  *)
(* step by step, because their intermediate progress values matter.        *)
(* Collaborators (pandas.read_csv, requests.get, Telethon) are modelled by *)
(* the outcomes the code distinguishes: return, or raise one of the        *)
(* exception classes the handlers name.                                    *)
(*                                                                         *)
(* The specifications share the state and the actions:                     *)
(*   SpecSession   connect, disconnect, main page and single upload, for   *)
(*                 every browser session of the process;                   *)
(*   SpecBatch     one browser session's connects, disconnects and batch   *)
(*                 runs, the run taken one step at a time;                 *)
(*   SpecBatchFair SpecBatch with weak fairness of the run's steps;        *)
(*   SpecDownload  the single-link download, one chunk at a time;          *)
(*   SpecSanitize  the filenames derived for two rows of one run;          *)
(*   SpecUpload    a single upload, one progress callback at a time;       *)
(*   SpecLog       the log of one browser session, call by call.           *)
(* fetches, publishes and failures record, per manifest row, the calls to  *)
(* requests.get and send_file and the failure events of the current run.   *)
(***************************************************************************)
EXTENDS Integers, Sequences, FiniteSets, TLC

\* ---------------------------------------------------------------- bounds
MaxRows == 3
MaxClients == 2

\* Chunks in one response body, and in one Content-Length.
MaxChunks == 3

\* Characters in one URL.
MaxLen == 3

\* Parts of one uploaded file, and progress callbacks during one upload.
MaxParts == 2
MaxCalls == 2

\* add_log calls followed beyond the LogCap-th of a session.
MaxExtra == 2

\* ------------------------------------------------------ program constants
LogCap == 100

\* ------------------------------------------------------------- the state
VARIABLES
    telethon_client,       \* module global: 0 (None) or the id of a client object
    client_up,             \* client_up[c]: is_connected() of every client object ever created
    client_owner,          \* client_owner[c]: the browser session whose connect created c
    session_active,        \* session['session_active'], per browser session
    user_info,             \* session['user_info'], per browser session ("absent" when popped)
    csv_overall_progress,  \* session['csv_overall_progress'], per browser session
    upload_progress,       \* session['upload_progress'], per browser session
    new_logs,              \* the entries the latest step prepended to session['logs'], newest first
    pc,                    \* position of the request in flight ("idle" when none)
    run_b,                 \* the browser session whose batch run is in flight
    csv_file_bytes,        \* argument of _run_csv_process_async: the uploaded manifest
    is_client_ready,       \* local of _run_csv_process_async
    dataframe,             \* local: the parsed manifest (what pd.read_csv returned)
    pos,                   \* local: number of rows dataframe.iterrows() has yielded
    successful_uploads,    \* local of _run_csv_process_async
    run_result,            \* return value of the last run: "none", "true", "false"
    fetches,               \* fetches[i]: requests.get calls made for row i in this run
    publishes,             \* publishes[i]: send_file calls made for row i in this run
    failures,              \* failures[i]: per-item failure events recorded for row i in this run
    download_only_events,  \* "files will only be downloaded" events emitted for this run
    last_send,             \* the send_file call of the latest step: its client (0: none) and requester
    download_progress,     \* session['download_progress'], per browser session
    dl_b,                  \* the browser session whose single download is in flight
    dl_total,              \* local of download_from_link_route: total_size_in_bytes
    dl_size,               \* local of download_from_link_route: downloaded_size
    dl_left,               \* chunks response.iter_content has yet to yield
    san_rows,              \* the rows a filename was derived for: label, clock, name
    up_b,                  \* the browser session whose single upload is in flight
    up_calls,              \* calls of progress_callback_sync during the latest upload
    logs,                  \* session['logs'] of one browser session, entries named by call number
    log_calls              \* add_log calls made in that session so far

globalVars == <<telethon_client, client_up, client_owner>>
sessionVars == <<session_active, user_info, csv_overall_progress, upload_progress,
                 download_progress>>
runVars == <<run_b, csv_file_bytes, is_client_ready, dataframe, pos, successful_uploads, run_result,
             fetches, publishes, failures, download_only_events>>
restVars == <<up_b, up_calls, logs, log_calls>>
otherVars == <<dl_b, dl_total, dl_size, dl_left, san_rows, restVars>>
vars == <<globalVars, sessionVars, runVars, otherVars, pc, new_logs, last_send>>

Browsers == {"b1", "b2"}

\* No send_file call.
NoSend == [client |-> 0, by |-> "b1"]

\* ------------------------------------------------------- progress values
\* A progress value is a rational num/den (den > 0) kept in lowest terms, or
\* Absent when the key is not in the session.
RECURSIVE GCD(_, _)
GCD(a, b) == IF b = 0 THEN a ELSE GCD(b, a % b)

Abs(x) == IF x < 0 THEN -x ELSE x

Rat(n, d) == LET g == GCD(Abs(n), d) IN [num |-> n \div g, den |-> d \div g]

Absent == [num |-> 0, den |-> 0]

RLe(p, q) == p.num * q.den <= q.num * p.den

REq(p, k) == p.den # 0 /\ p.num = k * p.den

\* ------------------------------------------------------------------ logs
Min(a, b) == IF a < b THEN a ELSE b

\* Mutant: the log is cut to its size before the new entry goes in.
add_log_cut_first(l, message) == <<message>> \o SubSeq(l, 1, Min(LogCap, Len(l)))

add_log(l, message) == SubSeq(<<message>> \o l, 1, Min(LogCap, Len(l) + 1))

RECURSIVE add_logs(_, _)
add_logs(l, messages) ==
    IF messages = <<>> THEN l
    ELSE add_logs(add_log(l, Head(messages)), Tail(messages))

\* ------------------------------------------------- Telethon client objects
Clients == 1..Len(client_up)

\* await client.disconnect(): Telethon marks the client not connected before it
\* tears the transport down, so is_connected() is False afterwards whether the
\* call returns or raises.
disconnect_client(up, c) == [up EXCEPT ![c] = FALSE]

\* Mutant: the previous client is dropped without being disconnected.
disconnect_previous_skip(up, c) == up

\* _connect_session_async, lines 66-70: the guard reads the bound method
\* telethon_client.is_connected (no call), which is always truthy, so every
\* previously held client is disconnected, then the global is cleared.
disconnect_previous(up, c) == IF c # 0 THEN disconnect_client(up, c) ELSE up

\* What connecting the new client can do, as the code distinguishes it:
\*   result     the branch taken (lines 82-107); "ctor_raises" is TelegramClient(...)
\*              raising before the global is assigned
\*   up         is_connected() of the new client when that branch is entered
\*   dis_raises the disconnect() of the new client in that branch raises
ConnectOutcomes ==
    {[result |-> "ctor_raises", up |-> FALSE, dis_raises |-> FALSE],
     [result |-> "authorized", up |-> TRUE, dis_raises |-> FALSE]}
    \cup {[result |-> r, up |-> FALSE, dis_raises |-> FALSE] :
            r \in {"unauthorized", "ApiIdInvalidError", "FloodWaitError", "ConnectionError", "Exception"}}
    \cup {[result |-> "ApiIdInvalidError", up |-> TRUE, dis_raises |-> FALSE]}
    \cup {[result |-> r, up |-> TRUE, dis_raises |-> d] :
            r \in {"unauthorized", "FloodWaitError", "ConnectionError", "Exception"}, d \in BOOLEAN}

\* The log lines of the branch taken (lines 84-107, and run_async_task line 57
\* when the handler's own disconnect raises).
connect_messages(o) ==
    CASE o.result = "authorized" -> <<"connect_successful">>
      [] o.result = "unauthorized" ->
            <<"connect_failed_or_unauthorized">>
            \o (IF o.dis_raises THEN <<"connect_error_Exception">> ELSE <<>>)
      [] o.result = "ApiIdInvalidError" -> <<"connect_error_ApiIdInvalid">>
      [] o.result = "FloodWaitError" ->
            <<"connect_error_FloodWait">>
            \o (IF o.dis_raises THEN <<"async_helper_error">> ELSE <<>>)
      [] o.result = "ConnectionError" ->
            <<"connect_error_Network">>
            \o (IF o.dis_raises THEN <<"async_helper_error">> ELSE <<>>)
      [] OTHER ->
            <<"connect_error_Exception">>
            \o (IF o.dis_raises THEN <<"async_helper_error">> ELSE <<>>)

\* is_connected() of the new client when _connect_session_async is left: only
\* the authorized branch and the ApiIdInvalidError handler (which does not
\* disconnect) leave it as it was.
new_client_up(o) == o.up /\ o.result \in {"authorized", "ApiIdInvalidError"}

\* Mutant: the flag is set as soon as the new client is connected.
session_active_after_connected(o) == o.up

\* session['session_active'] when _connect_session_async is left: False from
\* line 71 on, True only in the branch of lines 82-87.
session_active_after(o) == o.result = "authorized"

\* _connect_session_async(b): the whole coroutine, run by login_page.
connect_session(b, old_raises, o) ==
    LET old == telethon_client
        up1 == disconnect_previous(client_up, old)
        id  == Len(client_up) + 1
    IN  /\ IF o.result = "ctor_raises"
           THEN /\ telethon_client' = 0
                /\ client_up' = up1
                /\ client_owner' = client_owner
           ELSE /\ telethon_client' = id
                /\ client_up' = Append(up1, new_client_up(o))
                /\ client_owner' = Append(client_owner, b)
        /\ session_active' = [session_active EXCEPT ![b] = session_active_after(o)]
        /\ user_info' = IF o.result = "authorized"
                        THEN [user_info EXCEPT ![b] = "user"]
                        ELSE user_info
        /\ new_logs' = add_logs(<<>>,
                (IF old # 0
                 THEN <<"disconnecting_previous">>
                      \o (IF old_raises THEN <<"note_old_disconnect">> ELSE <<>>)
                 ELSE <<>>)
                \o <<"attempting_connect">> \o connect_messages(o))

\* POST / (login_page): the form checks of lines 272-299, then the connect.
\* form: "invalid" (a flash and a redirect), "file_missing" (logged), "ok".
login_page(b, form, old_raises, o) ==
    /\ pc = "idle"
    /\ IF form = "ok"
       THEN /\ Len(client_up) < MaxClients
            /\ old_raises => telethon_client # 0
            /\ connect_session(b, old_raises, o)
            /\ UNCHANGED <<csv_overall_progress, upload_progress, download_progress>>
       ELSE /\ ~old_raises
            /\ o.result = "ctor_raises"
            /\ new_logs' = IF form = "file_missing" THEN <<"session_file_not_found">> ELSE <<>>
            /\ UNCHANGED <<globalVars, sessionVars>>
    /\ last_send' = NoSend
    /\ UNCHANGED <<runVars, otherVars, pc>>

\* Mutant: a disconnect that raises leaves the client in the global.
held_after_disconnect_unless_raised(raises) == IF raises THEN telethon_client ELSE 0

\* Line 120: telethon_client = None, after the try of lines 113-117.
held_after_disconnect(raises) == 0

\* GET /disconnect: _disconnect_session_async (lines 109-123), then lines 366-373.
disconnect(b, raises) ==
    /\ pc = "idle"
    /\ LET live == telethon_client # 0 /\ client_up[telethon_client]
       IN  /\ raises => live
           /\ client_up' = IF live THEN disconnect_client(client_up, telethon_client) ELSE client_up
           /\ new_logs' = add_logs(<<>>,
                   <<"disconnecting_current">>
                   \o (IF ~live THEN <<"no_active_session">>
                       ELSE IF raises THEN <<"note_disconnect">>
                       ELSE <<"session_disconnected">>))
    /\ telethon_client' = held_after_disconnect(raises)
    /\ session_active' = [session_active EXCEPT ![b] = FALSE]
    /\ user_info' = [user_info EXCEPT ![b] = "absent"]
    /\ last_send' = NoSend
    /\ UNCHANGED <<client_owner, csv_overall_progress, upload_progress, download_progress,
                   runVars, otherVars, pc>>

\* GET /main (main_app_page): marks a not-connected session and pops the
\* progress keys after showing them once (lines 328-349).
main_app_page(b) ==
    /\ pc = "idle"
    /\ user_info' = IF session_active[b] THEN user_info
                    ELSE [user_info EXCEPT ![b] = "n/a"]
    /\ csv_overall_progress' = [csv_overall_progress EXCEPT ![b] = Absent]
    /\ upload_progress' = [upload_progress EXCEPT ![b] = Absent]
    /\ download_progress' = [download_progress EXCEPT ![b] = Absent]
    /\ new_logs' = <<>>
    /\ last_send' = NoSend
    /\ UNCHANGED <<globalVars, session_active, runVars, otherVars, pc>>

\* ------------------------------------------------------ _upload_file_async
\* What send_file can do: return, or raise one of the classes of lines 149-158.
\* drops: the fault also took the connection down (is_connected() is False after).
UploadOutcomes ==
    {[result |-> r, drops |-> FALSE] :
        r \in {"ok", "MediaEmptyError", "UserNotParticipantError", "FloodWaitError", "Exception"}}
    \cup {[result |-> "Exception", drops |-> TRUE]}

\* Mutant: the guard no longer asks the client whether it is connected.
upload_connected_unasked(b) ==
    /\ session_active[b]
    /\ telethon_client # 0

\* The guard of line 126, negated: the upload goes on to send_file.
upload_connected(b) ==
    /\ session_active[b]
    /\ telethon_client # 0
    /\ client_up[telethon_client]

\* The return value of _upload_file_async.
upload_ok(b, o) == upload_connected(b) /\ o.result = "ok"

\* session['upload_progress'] when _upload_file_async returns (lines 131, 146, 161).
upload_progress_after(b, o) ==
    IF ~upload_connected(b) THEN upload_progress
    ELSE [upload_progress EXCEPT ![b] = IF o.result = "ok" THEN Rat(100, 1) ELSE Rat(-1, 1)]

\* Line 144: send_file is called on the process-wide client, for requester b;
\* the guard of line 126 returns before it when the upload is not connected.
upload_send(b) ==
    IF upload_connected(b) THEN [client |-> telethon_client, by |-> b] ELSE NoSend

upload_client_up(b, o) ==
    IF upload_connected(b) /\ o.drops
    THEN disconnect_client(client_up, telethon_client)
    ELSE client_up

upload_messages(b, o) ==
    IF ~upload_connected(b) THEN <<"upload_error_not_connected">>
    ELSE <<"upload_starting">>
         \o (CASE o.result = "ok" -> <<"upload_completed">>
               [] o.result = "MediaEmptyError" -> <<"upload_error_empty">>
               [] o.result = "UserNotParticipantError" -> <<"upload_error_not_participant">>
               [] o.result = "FloodWaitError" -> <<"upload_error_flood_wait">>
               [] OTHER -> <<"upload_failed">>)

\* POST /upload_file (upload_file_route, lines 426-447).
\* selected: "none" (no file chosen), "missing" (not on disk), "file".
upload_file_route(b, selected, o) ==
    /\ pc = "idle"
    /\ IF session_active[b] /\ selected = "file"
       THEN /\ upload_progress' = upload_progress_after(b, o)
            /\ client_up' = upload_client_up(b, o)
            /\ new_logs' = add_logs(<<>>, upload_messages(b, o))
            /\ last_send' = upload_send(b)
       ELSE /\ o = [result |-> "ok", drops |-> FALSE]
            /\ new_logs' = IF ~session_active[b] THEN <<"upload_attempt_not_connected">>
                           ELSE IF selected = "missing" THEN <<"upload_file_not_found">>
                           ELSE <<>>
            /\ last_send' = NoSend
            /\ UNCHANGED <<upload_progress, client_up>>
    /\ UNCHANGED <<telethon_client, client_owner, session_active, user_info,
                   csv_overall_progress, download_progress, runVars, otherVars, pc>>

\* ----------------------------------- _upload_file_async, one step at a time
\* POST /upload_file up to the call of send_file (lines 426-444 and 126-143).
upload_begin(b, selected) ==
    /\ pc = "idle"
    /\ IF session_active[b] /\ selected = "file" /\ upload_connected(b)
       THEN /\ upload_progress' = [upload_progress EXCEPT ![b] = Rat(0, 1)]
            /\ new_logs' = <<"upload_starting">>
            /\ last_send' = upload_send(b)
            /\ pc' = "upload"
            /\ up_b' = b
            /\ up_calls' = 0
       ELSE /\ new_logs' = IF ~session_active[b] THEN <<"upload_attempt_not_connected">>
                           ELSE IF selected = "missing" THEN <<"upload_file_not_found">>
                           ELSE IF selected = "file" THEN <<"upload_error_not_connected">>
                           ELSE <<>>
            /\ last_send' = NoSend
            /\ UNCHANGED <<upload_progress, pc, up_b, up_calls>>
    /\ UNCHANGED <<globalVars, session_active, user_info, csv_overall_progress,
                   download_progress, runVars, dl_b, dl_total, dl_size, dl_left, san_rows,
                   logs, log_calls>>

\* Lines 134-140: what one call of progress_callback_sync leaves in the session.
callback_progress(current, total, stored) ==
    IF total > 0 THEN Rat(current * 100, total) ELSE stored

\* Line 138: the callback logs every 20 percent below 100.
callback_messages(current, total) ==
    IF total > 0 /\ ((current * 100) \div total) % 20 = 0 /\ (current * 100) \div total < 100
    THEN <<"upload_progress">> ELSE <<>>

\* send_file calls progress_callback_sync(current, total).
upload_callback(current, total) ==
    /\ pc = "upload"
    /\ up_calls < MaxCalls
    /\ up_calls' = up_calls + 1
    /\ upload_progress' = [upload_progress EXCEPT
            ![up_b] = callback_progress(current, total, upload_progress[up_b])]
    /\ new_logs' = callback_messages(current, total)
    /\ last_send' = NoSend
    /\ UNCHANGED <<globalVars, session_active, user_info, csv_overall_progress,
                   download_progress, runVars, dl_b, dl_total, dl_size, dl_left, san_rows,
                   pc, up_b, logs, log_calls>>

\* Mutant: a transfer that succeeds leaves the progress where the callback put it.
upload_end_progress_as_called(b, o) ==
    IF o.result = "ok" THEN upload_progress
    ELSE [upload_progress EXCEPT ![b] = Rat(-1, 1)]

\* Lines 146 and 161: the progress when send_file has returned or raised.
upload_end_progress(b, o) ==
    [upload_progress EXCEPT ![b] = IF o.result = "ok" THEN Rat(100, 1) ELSE Rat(-1, 1)]

\* The log line of the branch taken (lines 145 and 149-159).
upload_end_message(o) ==
    CASE o.result = "ok" -> "upload_completed"
      [] o.result = "MediaEmptyError" -> "upload_error_empty"
      [] o.result = "UserNotParticipantError" -> "upload_error_not_participant"
      [] o.result = "FloodWaitError" -> "upload_error_flood_wait"
      [] OTHER -> "upload_failed"

\* send_file returns or raises (lines 144-162); the handler redirects.
upload_end(o) ==
    /\ pc = "upload"
    /\ upload_progress' = upload_end_progress(up_b, o)
    /\ client_up' = IF o.drops THEN disconnect_client(client_up, telethon_client) ELSE client_up
    /\ new_logs' = <<upload_end_message(o)>>
    /\ last_send' = NoSend
    /\ pc' = "idle"
    /\ up_b' = "b1"
    /\ UNCHANGED <<telethon_client, client_owner, session_active, user_info,
                   csv_overall_progress, download_progress, runVars, dl_b, dl_total, dl_size,
                   dl_left, san_rows, up_calls, logs, log_calls>>

\* ------------------------------------------------------------- manifests
\* A cell of the 'link' column as line 205 sees it: a non-blank str, a blank
\* str, or a value that is no str (NaN for an empty cell, a number).
LinkCells == {"url", "blank", "nontext"}

\* Row labels. pd.read_csv gives the rows the labels 0..n-1, unless the data
\* rows hold one field more than the header: then the first field of each row
\* becomes its label (pandas' implicit index), a number or a string.
RangeLabel(i) == [numeric |-> TRUE, val |-> i - 1]

ImplicitLabels == {[numeric |-> TRUE, val |-> 3], [numeric |-> FALSE, val |-> 0]}

\* The labels row i (1-based) of a table can carry.
RowLabels(implicit, i) == IF implicit THEN ImplicitLabels ELSE {RangeLabel(i)}

ColumnNames == {"link", "Link", "caption"}

\* The uploaded bytes, by what pd.read_csv(..., delimiter=';') makes of them:
\* unparsable, or a table with its header, its number of data rows and whether
\* its rows carry an implicit index. The cells of a row are read when
\* iterrows() yields the row (item_begin).
Manifests ==
    {[kind |-> "malformed", columns |-> {}, nrows |-> 0, implicit |-> FALSE]}
    \cup {[kind |-> "table", columns |-> cols, nrows |-> n, implicit |-> FALSE] :
            cols \in (SUBSET ColumnNames) \ {{}}, n \in 0..MaxRows}
    \cup {[kind |-> "table", columns |-> cols, nrows |-> n, implicit |-> TRUE] :
            cols \in (SUBSET ColumnNames) \ {{}}, n \in 1..MaxRows}

NoBytes == [kind |-> "malformed", columns |-> {}, nrows |-> 0, implicit |-> FALSE]

NoFrame == [n |-> 0, implicit |-> FALSE, rows |-> <<>>]

Zeros(n) == [i \in 1..n |-> 0]

NoRun ==
    /\ run_b = "b1"
    /\ csv_file_bytes = NoBytes
    /\ is_client_ready = FALSE
    /\ dataframe = NoFrame
    /\ pos = 0
    /\ successful_uploads = 0
    /\ run_result = "none"
    /\ fetches = <<>>
    /\ publishes = <<>>
    /\ failures = <<>>
    /\ download_only_events = 0

Running == pc \in {"parse", "loop", "fetch", "publish"}

Terminal == pc \in {"ParseFailed", "Empty", "Completed", "Fatal"}

\* --------------------------------------------- _run_csv_process_async
\* Mutant: the download-only notice is emitted whether or not a client is ready.
download_only_messages_always(ready) == <<"download_only">>

\* Lines 167-169: the notice that files will only be downloaded, emitted when
\* the run starts without a ready client, before the manifest is read.
download_only_messages(ready) == IF ready THEN <<>> ELSE <<"download_only">>

\* POST /process_csv (process_csv_route, lines 455-470) up to the call, then
\* _run_csv_process_async lines 166-173.
\* file: "none" or "not_csv" (refused, lines 456-462), "unreadable"
\* (csv_file.read() raises, lines 471-474), or the manifest read.
process_csv_route(b, file, manifest) ==
    /\ pc = "idle"
    /\ run_b' = b
    /\ IF file = "csv"
       THEN LET ready == upload_connected(b)
            IN  /\ is_client_ready' = ready
                /\ new_logs' = add_logs(<<"received_csv">>, download_only_messages(ready))
                /\ download_only_events' = Len(download_only_messages(ready))
                /\ csv_overall_progress' = [csv_overall_progress EXCEPT ![b] = Rat(0, 1)]
                /\ csv_file_bytes' = manifest
                /\ pc' = "parse"
       ELSE /\ manifest = NoBytes
            /\ new_logs' = IF file = "unreadable" THEN <<"error_reading_csv">> ELSE <<>>
            /\ csv_overall_progress' =
                   IF file = "unreadable"
                   THEN [csv_overall_progress EXCEPT ![b] = Rat(-1, 1)]
                   ELSE csv_overall_progress
            /\ UNCHANGED <<is_client_ready, csv_file_bytes, pc, download_only_events>>
    /\ last_send' = NoSend
    /\ UNCHANGED <<globalVars, session_active, user_info, upload_progress, download_progress,
                   dataframe, pos, successful_uploads, run_result, fetches, publishes, failures,
                   otherVars>>

\* Mutant: the column name is matched without regard to case.
has_link_column_any_case(columns) == "link" \in columns \/ "Link" \in columns

\* Line 184: 'link' in dataframe.columns, an exact, case-sensitive match.
has_link_column(columns) == "link" \in columns

\* Lines 176-196: where parsing leaves the run.
parse_outcome(bytes) ==
    IF bytes.kind = "malformed" \/ ~has_link_column(bytes.columns) THEN "ParseFailed"
    ELSE IF bytes.nrows = 0 THEN "Empty"
    ELSE "loop"

\* Mutant: an empty table is reported as 100 percent done.
progress_after_parse_empty_100(outcome, p) ==
    IF outcome = "ParseFailed" THEN Rat(-1, 1)
    ELSE IF outcome = "Empty" THEN Rat(100, 1)
    ELSE p

\* session['csv_overall_progress'] after parsing: lines 181 and 187 set -1,
\* the empty table (line 194) and the start of the loop leave it alone.
progress_after_parse(outcome, p) == IF outcome = "ParseFailed" THEN Rat(-1, 1) ELSE p

\* Lines 175-197: read_csv, the 'link' column check, the empty table.
parse_manifest ==
    /\ pc = "parse"
    /\ csv_file_bytes' = NoBytes
    /\ LET outcome == parse_outcome(csv_file_bytes)
       IN  /\ pc' = outcome
           /\ csv_overall_progress' = [csv_overall_progress EXCEPT
                   ![run_b] = progress_after_parse(outcome, @)]
           /\ run_result' = CASE outcome = "ParseFailed" -> "false"
                              [] outcome = "Empty" -> "true"
                              [] OTHER -> run_result
           /\ new_logs' = CASE outcome = "Empty" -> <<"csv_info_empty">>
                            [] outcome = "loop" -> <<"starting_csv_processing">>
                            [] csv_file_bytes.kind = "malformed" -> <<"csv_parsing_error">>
                            [] OTHER -> <<"csv_error_no_link_column">>
           /\ IF outcome = "loop"
              THEN /\ dataframe' = [n |-> csv_file_bytes.nrows,
                                   implicit |-> csv_file_bytes.implicit, rows |-> <<>>]
                   /\ successful_uploads' = 0
                   /\ fetches' = Zeros(csv_file_bytes.nrows)
                   /\ publishes' = Zeros(csv_file_bytes.nrows)
                   /\ failures' = Zeros(csv_file_bytes.nrows)
              ELSE UNCHANGED <<dataframe, successful_uploads, fetches, publishes, failures>>
    /\ last_send' = NoSend
    /\ UNCHANGED <<globalVars, session_active, user_info, upload_progress, download_progress,
                   run_b, is_client_ready, pos, download_only_events, otherVars>>

total_csv_items == dataframe.n

\* Line 201: (item_num / total_csv_items) * 100 with item_num = index + 1.
item_progress(index) == Rat((index.val + 1) * 100, total_csv_items)

\* Mutant: the blank check (.strip()) is missing.
link_is_valid_no_strip(row) == row.link # "nontext"

\* Line 205: the row is skipped unless its link is a non-blank str.
link_is_valid(row) == row.link = "url"

Rows == [index : ImplicitLabels \cup {RangeLabel(i) : i \in 1..MaxRows}, link : LinkCells]

\* Mutant: the progress computation is inside the per-item try, so its fault
\* is recorded against the item and the loop goes on.
raises_outside_item_never(row) == FALSE

\* Line 200, item_num = index + 1, raises TypeError for a label that is no
\* number; the statement stands before the per-item try of line 216.
raises_outside_item(row) == ~row.index.numeric

\* Lines 199-214: the loop takes the next row. A raise outside the per-item
\* try is caught at lines 249-254.
item_begin(row) ==
    /\ pc = "loop"
    /\ pos < total_csv_items
    /\ row.index \in RowLabels(dataframe.implicit, pos + 1)
    /\ pos' = pos + 1
    /\ dataframe' = [dataframe EXCEPT !.rows = Append(@, row)]
    /\ IF raises_outside_item(row)
       THEN /\ new_logs' = <<"csv_processing_failed">>
            /\ csv_overall_progress' = [csv_overall_progress EXCEPT ![run_b] = Rat(-1, 1)]
            /\ run_result' = "false"
            /\ pc' = "Fatal"
       ELSE /\ csv_overall_progress' =
                   [csv_overall_progress EXCEPT ![run_b] = item_progress(row.index)]
            /\ new_logs' = IF link_is_valid(row) THEN <<"item_processing">>
                           ELSE <<"item_skipped">>
            /\ pc' = IF link_is_valid(row) THEN "fetch" ELSE "loop"
            /\ UNCHANGED run_result
    /\ last_send' = NoSend
    /\ UNCHANGED <<globalVars, session_active, user_info, upload_progress, download_progress,
                   run_b, csv_file_bytes, is_client_ready, successful_uploads,
                   fetches, publishes, failures, download_only_events, otherVars>>

FetchOutcomes == {"ok", "RequestException", "Exception"}

\* Mutant: a failed fetch escapes the per-item try and aborts the run.
after_fetch_abort(outcome) ==
    IF outcome = "ok" THEN (IF is_client_ready THEN "publish" ELSE "loop") ELSE "Fatal"

\* Mutant: the upload is attempted whether or not a session was available.
after_fetch_ignores_ready(outcome) == IF outcome = "ok" THEN "publish" ELSE "loop"

\* Where the loop goes after the fetch of lines 216-223.
after_fetch(outcome) == IF outcome = "ok" /\ is_client_ready THEN "publish" ELSE "loop"

\* Lines 216-225 and 231-239: the download of the current row.
\* "RequestException": requests.get or raise_for_status raised (HTTP status,
\* timeout, network); "Exception": anything else, e.g. the file write.
fetch_item(outcome) ==
    /\ pc = "fetch"
    /\ fetches' = [fetches EXCEPT ![pos] = @ + 1]
    /\ failures' = [failures EXCEPT ![pos] = IF outcome = "ok" THEN @ ELSE @ + 1]
    /\ new_logs' = add_logs(<<"item_downloading">>,
            CASE outcome = "RequestException" -> <<"item_download_failed">>
              [] outcome = "Exception" -> <<"item_error_processing">>
              [] OTHER -> <<"item_downloaded">>
                          \o (IF is_client_ready THEN <<"item_attempting_upload">>
                              ELSE <<"item_skipped_upload">>))
    /\ pc' = after_fetch(outcome)
    /\ last_send' = NoSend
    /\ UNCHANGED <<globalVars, sessionVars, run_b, csv_file_bytes, is_client_ready,
                   dataframe, pos, successful_uploads, run_result, publishes,
                   download_only_events, otherVars>>

\* Mutant: a successful upload is counted twice.
count_upload_twice(n, ok) == IF ok THEN n + 2 ELSE n

\* Mutant: every upload attempt is counted, failed or not.
count_upload_always(n, ok) == n + 1

\* Line 230: successful_uploads after _upload_file_async returned upload_ok.
count_upload(n, ok) == IF ok THEN n + 1 ELSE n

\* Mutant: a rate-limited upload is tried again.
after_publish_retry_flood(o) == IF o.result = "FloodWaitError" THEN "publish" ELSE "loop"

\* Mutant: a rate-limited upload parks the run until the wait is lifted.
after_publish_park_flood(o) == IF o.result = "FloodWaitError" THEN "flood_wait" ELSE "loop"

\* Lines 228-239: whatever _upload_file_async returned, the loop goes on to
\* the next row; nothing is tried again.
after_publish(o) == "loop"

\* Lines 228-230: _upload_file_async for the current row.
publish_item(o) ==
    /\ pc = "publish"
    /\ publishes' = [publishes EXCEPT ![pos] = IF upload_connected(run_b) THEN @ + 1 ELSE @]
    /\ failures' = [failures EXCEPT ![pos] = IF upload_ok(run_b, o) THEN @ ELSE @ + 1]
    /\ successful_uploads' = count_upload(successful_uploads, upload_ok(run_b, o))
    /\ upload_progress' = upload_progress_after(run_b, o)
    /\ client_up' = upload_client_up(run_b, o)
    /\ new_logs' = add_logs(<<>>, upload_messages(run_b, o))
    /\ pc' = after_publish(o)
    /\ last_send' = upload_send(run_b)
    /\ UNCHANGED <<telethon_client, client_owner, session_active, user_info,
                   csv_overall_progress, download_progress, run_b, csv_file_bytes,
                   is_client_ready, dataframe, pos, run_result, fetches,
                   download_only_events, otherVars>>

\* Lines 241-244: the loop is exhausted.
finish_run ==
    /\ pc = "loop"
    /\ pos = total_csv_items
    /\ new_logs' = <<"csv_processing_completed">>
    /\ csv_overall_progress' = [csv_overall_progress EXCEPT ![run_b] = Rat(100, 1)]
    /\ run_result' = "true"
    /\ pc' = "Completed"
    /\ last_send' = NoSend
    /\ UNCHANGED <<globalVars, session_active, user_info, upload_progress, download_progress,
                   run_b, csv_file_bytes, is_client_ready, dataframe, pos, successful_uploads,
                   fetches, publishes, failures, download_only_events, otherVars>>

\* process_csv_route line 476: the request ends; the coroutine's frame is gone.
return_from_run ==
    /\ Terminal
    /\ pc' = "idle"
    /\ run_b' = "b1"
    /\ csv_file_bytes' = NoBytes
    /\ is_client_ready' = FALSE
    /\ dataframe' = NoFrame
    /\ pos' = 0
    /\ successful_uploads' = 0
    /\ run_result' = "none"
    /\ fetches' = <<>>
    /\ publishes' = <<>>
    /\ failures' = <<>>
    /\ download_only_events' = 0
    /\ UNCHANGED <<globalVars, sessionVars, otherVars, new_logs, last_send>>

\* ------------------------------------------------ download_from_link_route
\* int(x) of a progress value.
int(p) == p.num \div p.den

\* Content-Length headers, in chunks of iter_content; 0: no header (line 396).
ContentLengths == 0..MaxChunks

\* What requests.get and raise_for_status can do (lines 394-395): a response
\* with its Content-Length and the chunks its body will yield, or a raise.
\* The body is counted as iter_content yields it, decoded, so its length can
\* differ from the Content-Length of a compressed response.
ResponseOutcomes ==
    {[result |-> "ok", total |-> t, chunks |-> n] : t \in ContentLengths, n \in 0..MaxChunks}
    \cup {[result |-> r, total |-> 0, chunks |-> 0] : r \in {"RequestException", "Exception"}}

\* POST /download_link up to the first chunk (lines 375-397).
download_from_link_route(b, url_given, o) ==
    /\ pc = "idle"
    /\ IF ~url_given
       THEN /\ o = [result |-> "Exception", total |-> 0, chunks |-> 0]
            /\ new_logs' = <<"download_error_empty_url">>
            /\ UNCHANGED <<download_progress, pc, otherVars>>
       ELSE IF o.result = "ok"
       THEN /\ download_progress' = [download_progress EXCEPT ![b] = Rat(0, 1)]
            /\ new_logs' = <<"download_starting">>
            /\ pc' = "download"
            /\ dl_b' = b
            /\ dl_total' = o.total
            /\ dl_size' = 0
            /\ dl_left' = o.chunks
            /\ UNCHANGED <<san_rows, restVars>>
       ELSE /\ download_progress' = [download_progress EXCEPT ![b] = Rat(-1, 1)]
            /\ new_logs' = add_logs(<<"download_starting">>,
                    <<IF o.result = "RequestException" THEN "download_failed_request"
                      ELSE "download_failed_general">>)
            /\ UNCHANGED <<pc, otherVars>>
    /\ last_send' = NoSend
    /\ UNCHANGED <<globalVars, session_active, user_info, csv_overall_progress,
                   upload_progress, runVars>>

\* Lines 404-406: the progress a chunk leaves in the session.
chunk_progress(size, total, stored) ==
    LET current_progress == Rat(size * 100, total)
    IN  IF total > 0 /\ int(current_progress) % 10 = 0
                     /\ int(current_progress) # int(stored)
        THEN current_progress ELSE stored

\* One turn of the loop of line 399.
download_chunk ==
    /\ pc = "download"
    /\ dl_left > 0
    /\ dl_size' = dl_size + 1
    /\ dl_left' = dl_left - 1
    /\ download_progress' = [download_progress EXCEPT
            ![dl_b] = chunk_progress(dl_size + 1, dl_total, download_progress[dl_b])]
    /\ new_logs' = <<>>
    /\ last_send' = NoSend
    /\ UNCHANGED <<globalVars, session_active, user_info, csv_overall_progress,
                   upload_progress, runVars, pc, dl_b, dl_total, san_rows, restVars>>

\* The loop is over (line 411): progress 100, the handler redirects.
download_done ==
    /\ pc = "download"
    /\ dl_left = 0
    /\ download_progress' = [download_progress EXCEPT ![dl_b] = Rat(100, 1)]
    /\ new_logs' = <<"download_completed">>
    /\ pc' = "idle"
    /\ dl_b' = "b1"
    /\ dl_total' = 0
    /\ dl_size' = 0
    /\ dl_left' = 0
    /\ last_send' = NoSend
    /\ UNCHANGED <<globalVars, session_active, user_info, csv_overall_progress,
                   upload_progress, runVars, san_rows, restVars>>

\* The stream or the file write raises (lines 414-421): progress -1.
download_fail(kind) ==
    /\ pc = "download"
    /\ download_progress' = [download_progress EXCEPT ![dl_b] = Rat(-1, 1)]
    /\ new_logs' = <<IF kind = "RequestException" THEN "download_failed_request"
                     ELSE "download_failed_general">>
    /\ pc' = "idle"
    /\ dl_b' = "b1"
    /\ dl_total' = 0
    /\ dl_size' = 0
    /\ dl_left' = 0
    /\ last_send' = NoSend
    /\ UNCHANGED <<globalVars, session_active, user_info, csv_overall_progress,
                   upload_progress, runVars, san_rows, restVars>>

\* ------------------------------------------------------ filename sanitizer
\* The characters URLs are made of here: a letter, one of the punctuation
\* marks the filter keeps, the path and query separators, and a blank.
Chars == {"a", ".", "/", "?", " "}

Alnum == {"a"}

Whitespace == {" "}

RECURSIVE StringsUpTo(_)
StringsUpTo(n) ==
    IF n = 0 THEN {<<>>}
    ELSE LET shorter == StringsUpTo(n - 1)
         IN  shorter \cup {Append(t, c) : t \in {u \in shorter : Len(u) = n - 1}, c \in Chars}

\* str.strip().
strip(t) ==
    LET inked == {i \in DOMAIN t : t[i] \notin Whitespace}
    IN  IF inked = {} THEN <<>>
        ELSE SubSeq(t, CHOOSE i \in inked : \A j \in inked : i <= j,
                       CHOOSE i \in inked : \A j \in inked : i >= j)

\* The URLs that reach the sanitizer: line 205 skips a blank one.
Urls == {u \in StringsUpTo(MaxLen) : strip(u) # <<>>}

\* url.split('/')[-1]
last_segment(t) ==
    LET cuts == {i \in DOMAIN t : t[i] = "/"}
    IN  IF cuts = {} THEN t
        ELSE SubSeq(t, (CHOOSE i \in cuts : \A j \in cuts : i >= j) + 1, Len(t))

\* name.split('?')[0]
before_query(t) ==
    LET cuts == {i \in DOMAIN t : t[i] = "?"}
    IN  IF cuts = {} THEN t
        ELSE SubSeq(t, 1, (CHOOSE i \in cuts : \A j \in cuts : i <= j) - 1)

\* Mutant: the filter only drops the path separator.
kept_but_slash(c) == c # "/"

\* The filter of lines 211 and 387: c.isalnum() or c in ('.', '_', '-').
kept(c) == c \in Alnum \cup {".", "_", "-"}

\* Lines 210-211 and 386-387.
sanitize(url) == strip(SelectSeq(before_query(last_segment(url)), kept))

\* Lines 210-213: the name of the file of a row; f"csv_dl_{now}_{index}" when
\* nothing is left of the URL.
derive_filename(url, now, index) ==
    LET filename_from_csv_url == sanitize(url)
    IN  IF filename_from_csv_url = <<>>
        THEN [fallback |-> TRUE, text |-> <<"csv_dl_", ToString(now), "_", ToString(index)>>]
        ELSE [fallback |-> FALSE, text |-> filename_from_csv_url]

\* The labels the next row of the run can carry at line 213: those of
\* iterrows(), less the ones line 200 raised on.
NameLabels ==
    LET i == Len(san_rows) + 1
        implicit == IF san_rows = <<>> THEN BOOLEAN
                    ELSE {san_rows[1].index # RangeLabel(1).val}
    IN  {l \in UNION {RowLabels(imp, i) : imp \in implicit} : l.numeric}

\* int(time.time()) at line 213: the clock of the previous row, or a second on.
NameTimes == IF san_rows = <<>> THEN {0} ELSE {san_rows[Len(san_rows)].time + t : t \in {0, 1}}

\* The rows followed through lines 209-214: a row of the loop and a later row
\* of the same run.
RowPair == 2

\* Lines 209-214 for one more row of a run.
name_row(url, now, label) ==
    /\ pc = "idle"
    /\ Len(san_rows) < RowPair
    /\ san_rows' = Append(san_rows, [index |-> label.val, time |-> now,
                                     name |-> derive_filename(url, now, label.val)])
    /\ UNCHANGED <<globalVars, sessionVars, runVars, dl_b, dl_total, dl_size, dl_left,
                   restVars, pc, new_logs, last_send>>

\* The run is over; the next one names its rows afresh.
names_done ==
    /\ pc = "idle"
    /\ san_rows # <<>>
    /\ san_rows' = <<>>
    /\ UNCHANGED <<globalVars, sessionVars, runVars, dl_b, dl_total, dl_size, dl_left,
                   restVars, pc, new_logs, last_send>>

\* ------------------------------------------------------ the session log
\* One call of add_log (lines 33-40) in the browser session followed; the
\* entry is named by the number of the call that wrote it.
add_log_call ==
    /\ pc = "idle"
    /\ log_calls < LogCap + MaxExtra
    /\ log_calls' = log_calls + 1
    /\ logs' = add_log(logs, log_calls + 1)
    /\ UNCHANGED <<globalVars, sessionVars, runVars, dl_b, dl_total, dl_size, dl_left,
                   san_rows, up_b, up_calls, pc, new_logs, last_send>>

\* POST /clear_logs (clear_logs_route, lines 478-483): session.pop('logs').
clear_logs_route ==
    /\ pc = "idle"
    /\ logs' = <<>>
    /\ UNCHANGED <<globalVars, sessionVars, runVars, dl_b, dl_total, dl_size, dl_left,
                   san_rows, up_b, up_calls, log_calls, pc, new_logs, last_send>>

\* ---------------------------------------------------------- specification
Init ==
    /\ telethon_client = 0
    /\ client_up = <<>>
    /\ client_owner = <<>>
    /\ session_active = [b \in Browsers |-> FALSE]
    /\ user_info = [b \in Browsers |-> "absent"]
    /\ csv_overall_progress = [b \in Browsers |-> Absent]
    /\ upload_progress = [b \in Browsers |-> Absent]
    /\ download_progress = [b \in Browsers |-> Absent]
    /\ new_logs = <<>>
    /\ last_send = NoSend
    /\ pc = "idle"
    /\ NoRun
    /\ dl_b = "b1"
    /\ dl_total = 0
    /\ dl_size = 0
    /\ dl_left = 0
    /\ san_rows = <<>>
    /\ up_b = "b1"
    /\ up_calls = 0
    /\ logs = <<>>
    /\ log_calls = 0

\* The session handlers, for every browser session of the process.
SessionNext ==
    \/ \E b \in Browsers, form \in {"invalid", "file_missing", "ok"},
          old_raises \in BOOLEAN, o \in ConnectOutcomes :
            login_page(b, form, old_raises, o)
    \/ \E b \in Browsers, raises \in BOOLEAN : disconnect(b, raises)
    \/ \E b \in Browsers : main_app_page(b)
    \/ \E b \in Browsers, selected \in {"none", "missing", "file"}, o \in UploadOutcomes :
            upload_file_route(b, selected, o)

SpecSession == Init /\ [][SessionNext]_vars

\* The batch pipeline reads and writes the session of the browser that posted
\* the manifest, and the global client: SpecBatch follows one browser session
\* through its connects, disconnects and runs.
BatchBrowsers == {"b1"}

BatchNext ==
    \/ \E b \in BatchBrowsers, form \in {"invalid", "file_missing", "ok"},
          old_raises \in BOOLEAN, o \in ConnectOutcomes :
            login_page(b, form, old_raises, o)
    \/ \E b \in BatchBrowsers, raises \in BOOLEAN : disconnect(b, raises)
    \/ \E b \in BatchBrowsers, file \in {"none", "not_csv", "unreadable", "csv"},
          manifest \in Manifests :
            process_csv_route(b, file, manifest)
    \/ parse_manifest
    \/ \E row \in Rows : item_begin(row)
    \/ \E outcome \in FetchOutcomes : fetch_item(outcome)
    \/ \E o \in UploadOutcomes : publish_item(o)
    \/ finish_run
    \/ return_from_run

SpecBatch == Init /\ [][BatchNext]_vars

\* The steps of _run_csv_process_async. process_csv_route drives the coroutine
\* with run_until_complete (run_async_task, lines 43-58), so a run that can
\* take a step takes one, provided the call it awaits returns.
RunStep ==
    \/ parse_manifest
    \/ \E row \in Rows : item_begin(row)
    \/ \E outcome \in FetchOutcomes : fetch_item(outcome)
    \/ \E o \in UploadOutcomes : publish_item(o)
    \/ finish_run

SpecBatchFair == SpecBatch /\ WF_vars(RunStep)

\* The single-link download, chunk by chunk, and the page that shows and
\* clears the progress values.
DownloadNext ==
    \/ \E b \in Browsers, url_given \in BOOLEAN, o \in ResponseOutcomes :
            download_from_link_route(b, url_given, o)
    \/ download_chunk
    \/ download_done
    \/ \E kind \in {"RequestException", "Exception"} : download_fail(kind)
    \/ \E b \in Browsers : main_app_page(b)

SpecDownload == Init /\ [][DownloadNext]_vars

\* The filenames of the rows of a run, one row after the other.
SanitizeNext ==
    \/ \E url \in Urls, now \in NameTimes, label \in NameLabels : name_row(url, now, label)
    \/ names_done

SpecSanitize == Init /\ [][SanitizeNext]_vars

\* One browser session's connects and single uploads, the upload taken one
\* callback at a time, and the page that shows and clears the progress.
UploadNext ==
    \/ \E b \in BatchBrowsers, form \in {"invalid", "file_missing", "ok"},
          old_raises \in BOOLEAN, o \in ConnectOutcomes :
            login_page(b, form, old_raises, o)
    \/ \E b \in BatchBrowsers, selected \in {"none", "missing", "file"} :
            upload_begin(b, selected)
    \/ \E current \in 0..MaxParts, total \in 0..MaxParts : upload_callback(current, total)
    \/ \E o \in UploadOutcomes : upload_end(o)
    \/ \E b \in BatchBrowsers : main_app_page(b)

SpecUpload == Init /\ [][UploadNext]_vars

\* The log of one browser session, one add_log call after the other.
LogNext ==
    \/ add_log_call
    \/ clear_logs_route

SpecLog == Init /\ [][LogNext]_vars

\* ------------------------------------------------------------ properties
csv_progress == csv_overall_progress[run_b]

InLoop == pc \in {"loop", "fetch", "publish", "Completed", "Fatal"}

YieldedRows == 1..Len(dataframe.rows)

\* C1: a per-item failure (failed fetch, failed publish) never aborts the run:
\* the step that records it returns to the loop with the run's result and
\* progress untouched, the loop then starts the next row in manifest order, a
\* run only ends Completed once every row was started, and a Fatal end is
\* always the fault of a row label, never of a fetch or a publish.
C1_PerItemFailureNeverAborts ==
    /\ [](/\ pc = "Completed" => pos = total_csv_items /\ run_result = "true"
          /\ pc = "Fatal" => ~dataframe.rows[pos].index.numeric)
    /\ [][/\ (pc \in {"fetch", "publish"} /\ failures' # failures) =>
                /\ pc' = "loop"
                /\ pos' = pos
                /\ run_result' = "none"
                /\ csv_overall_progress' = csv_overall_progress
          /\ (pc = "loop" /\ pos < total_csv_items) =>
                /\ pos' = pos + 1
                /\ Len(dataframe'.rows) = pos + 1
                /\ SubSeq(dataframe'.rows, 1, pos) = dataframe.rows]_vars

C1_Witness ==
    /\ pc = "Completed"
    /\ total_csv_items >= 3
    /\ failures[1] = 1 /\ fetches[1] = 1 /\ publishes[1] = 0
    /\ failures[2] = 1 /\ publishes[2] = 1
    /\ fetches[3] = 1

\* C2: after a run over n > 0 rows completes, every row was started exactly
\* once (processedCount = n) and 0 <= successCount <= n.
C2_CountsAtCompletion ==
    pc = "Completed" =>
        /\ total_csv_items > 0
        /\ pos = total_csv_items
        /\ Len(dataframe.rows) = total_csv_items
        /\ 0 <= successful_uploads
        /\ successful_uploads <= total_csv_items

C2_Witness ==
    /\ pc = "Completed"
    /\ total_csv_items = 3
    /\ successful_uploads = 1
    /\ \E i, j \in YieldedRows : dataframe.rows[i].link = "blank" /\ failures[j] = 1

\* C3: within one run csv_overall_progress starts at 0, never decreases while
\* it is non-negative, and is never changed again once it is -1.
C3_ProgressMonotone ==
    /\ [](pc = "parse" => REq(csv_progress, 0))
    /\ [][Running =>
            IF REq(csv_progress, -1)
            THEN csv_overall_progress'[run_b] = csv_progress
            ELSE \/ REq(csv_overall_progress'[run_b], -1)
                 \/ RLe(csv_progress, csv_overall_progress'[run_b])]_vars

\* C4: a manifest that cannot be parsed, or whose table has no column named
\* exactly 'link', fails the run: result False, progress -1, and no fetch and
\* no publish is attempted before the request ends.
C4_ParseFailureAborts ==
    /\ [](pc = "ParseFailed" =>
            /\ run_result = "false"
            /\ REq(csv_progress, -1)
            /\ fetches = <<>> /\ publishes = <<>>)
    /\ [][/\ (pc = "parse" /\ (csv_file_bytes.kind = "malformed"
                               \/ "link" \notin csv_file_bytes.columns)) =>
                pc' = "ParseFailed"
          /\ pc = "ParseFailed" => pc' = "idle"]_vars

C4_Witness ==
    /\ pc = "ParseFailed"
    /\ new_logs = <<"csv_error_no_link_column">>

\* C5: a table with a 'link' column and zero data rows is a successful run:
\* result True, no fetch, no publish, progress left at its initial 0.
C5_EmptyManifestSucceeds ==
    /\ [](pc = "Empty" =>
            /\ run_result = "true"
            /\ REq(csv_progress, 0)
            /\ fetches = <<>> /\ publishes = <<>>)
    /\ [][/\ (pc = "parse" /\ csv_file_bytes.kind = "table"
              /\ "link" \in csv_file_bytes.columns /\ csv_file_bytes.nrows = 0) =>
                pc' = "Empty"
          /\ pc = "Empty" => pc' = "idle"]_vars

C5_Witness ==
    /\ pc = "Empty"
    /\ new_logs = <<"csv_info_empty">>

\* C6: a row whose link is blank or no text is neither fetched nor published,
\* records no failure and leaves successCount alone, yet counts as a started
\* row; the loop goes straight on to the next row.
C6_BlankRowsSkipped ==
    /\ [](InLoop =>
            \A i \in YieldedRows :
                dataframe.rows[i].link \in {"blank", "nontext"} =>
                    fetches[i] = 0 /\ publishes[i] = 0 /\ failures[i] = 0)
    /\ [][(pc = "loop" /\ pos < total_csv_items /\ pc' # "Fatal"
           /\ dataframe'.rows[pos + 1].link \in {"blank", "nontext"}) =>
                /\ pc' = "loop"
                /\ pos' = pos + 1
                /\ successful_uploads' = successful_uploads
                /\ new_logs' = <<"item_skipped">>]_vars

C6_Witness ==
    /\ pc = "Completed"
    /\ total_csv_items = 3
    /\ dataframe.rows[1].link = "url" /\ fetches[1] = 1
    /\ dataframe.rows[2].link = "blank"
    /\ dataframe.rows[3].link = "url" /\ fetches[3] = 1
    /\ pos = 3

\* C7: a run started without a connected, authorized session fetches every
\* started row that has a valid link, never publishes, keeps successCount at
\* 0, and completes with progress 100 and result True; the missing session is
\* never what aborts it.
C7_DownloadOnlyMode ==
    (InLoop /\ ~is_client_ready) =>
        /\ pc # "publish"
        /\ successful_uploads = 0
        /\ \A i \in 1..total_csv_items : publishes[i] = 0
        /\ \A i \in YieldedRows :
              (/\ dataframe.rows[i].link = "url"
               /\ dataframe.rows[i].index.numeric
               /\ (i < pos \/ pc # "fetch")) => fetches[i] = 1
        /\ pc = "Completed" =>
              /\ pos = total_csv_items
              /\ REq(csv_progress, 100)
              /\ run_result = "true"
        /\ pc = "Fatal" => ~dataframe.rows[pos].index.numeric

C7_Witness ==
    /\ pc = "Completed"
    /\ ~is_client_ready
    /\ total_csv_items = 2
    /\ fetches = <<1, 1>>
    /\ failures = <<0, 0>>

\* C8: publish is attempted for an item only after that item's fetch
\* succeeded and only when a session was available at the start, and
\* successCount is at every point the number of items fetched and published
\* successfully so far.
C8_SuccessCountExact ==
    InLoop =>
        /\ successful_uploads =
              Cardinality({i \in 1..total_csv_items : publishes[i] = 1 /\ failures[i] = 0})
        /\ \A i \in 1..total_csv_items :
              publishes[i] >= 1 =>
                  /\ fetches[i] = 1
                  /\ is_client_ready
                  /\ dataframe.rows[i].link = "url"
        /\ pc = "publish" =>
              /\ fetches[pos] = 1
              /\ failures[pos] = 0
              /\ is_client_ready

C8_Witness ==
    /\ pc = "Completed"
    /\ total_csv_items = 3
    /\ successful_uploads = 1
    /\ publishes = <<1, 0, 1>>
    /\ failures = <<1, 1, 0>>

\* C9: nothing is retried: in one run each row is fetched at most once and
\* published at most once, also after a failed fetch, a failed publish, or a
\* publish that failed with a flood wait.
C9_NoRetry ==
    \A i \in DOMAIN fetches : fetches[i] <= 1 /\ publishes[i] <= 1

C9_Witness ==
    /\ pc = "loop"
    /\ pos >= 1
    /\ Head(new_logs) = "upload_error_flood_wait"
    /\ publishes[pos] = 1
    /\ failures[pos] = 1

\* C10: after any sequence of connects and disconnects at most one client is
\* connected, and it is the one the process holds: a connect disconnects and
\* drops the previous client before it creates the new one.
C10_SingleConnectedClient ==
    /\ \A c \in Clients : client_up[c] => c = telethon_client
    /\ Cardinality({c \in Clients : client_up[c]}) <= 1

C10_Witness ==
    /\ client_owner = <<"b1", "b2">>
    /\ client_up = <<FALSE, TRUE>>
    /\ telethon_client = 2
    /\ session_active["b1"] /\ session_active["b2"]
    /\ Head(new_logs) = "connect_successful"

\* The entries of a log, as a set.
Logged(l) == {l[i] : i \in DOMAIN l}

\* C11: a publish asked for while the browser session's flag is off, while the
\* process holds no client, or while the held client is not connected fails at
\* once with the not-connected error: no step calls send_file unless all three
\* hold for the requester, and the refused publish starts no transfer and
\* writes no upload progress.
C11_NotConnectedNeverSends ==
    [][ /\ last_send'.client # 0 =>
             /\ session_active[last_send'.by]
             /\ telethon_client # 0
             /\ client_up[telethon_client]
             /\ last_send'.client = telethon_client
        /\ (Logged(new_logs') \cap {"upload_error_not_connected",
                                    "upload_attempt_not_connected"} # {}) =>
             /\ last_send'.client = 0
             /\ "upload_starting" \notin Logged(new_logs')
             /\ upload_progress' = upload_progress
             /\ client_up' = client_up
        /\ ("upload_starting" \in Logged(new_logs')) <=> (last_send'.client # 0)
      ]_vars

C11_Witness ==
    /\ session_active["b1"]
    /\ telethon_client = 0
    /\ new_logs = <<"upload_error_not_connected">>
    /\ last_send = NoSend
    /\ upload_progress["b1"] = Absent

\* A progress value the user interface can show: 0..100, or the -1 of an error.
InRange(p) == REq(p, -1) \/ (p.den # 0 /\ RLe(Rat(0, 1), p) /\ RLe(p, Rat(100, 1)))

\* C12: whenever one of download_progress, upload_progress and
\* csv_overall_progress is set, its value lies in 0..100 or is -1, the values
\* the download loop and the upload callback write in mid-transfer included.
C12_ProgressInRange ==
    \A b \in Browsers :
        \A p \in {download_progress[b], upload_progress[b], csv_overall_progress[b]} :
            p # Absent => InRange(p)

\* C13: the download-only notice is emitted at most once per run and only in
\* the Processing branch, after the manifest parsed with at least one item; a
\* run that ends in ParseFailed or Empty has emitted none.
C13_OnlyWhenProcessing ==
    /\ download_only_events <= 1
    /\ download_only_events > 0 => InLoop
    /\ pc \in {"ParseFailed", "Empty"} => download_only_events = 0

\* C13, amended: the download-only notice is emitted at most once per run, by
\* the step that starts the run and before the manifest is parsed, exactly
\* when the run starts without a ready client; whichever way the run ends,
\* ParseFailed and Empty included, it has emitted the notice by then.
C13_OnceAtStart ==
    /\ download_only_events <= 1
    /\ (Running \/ Terminal) => download_only_events = (IF is_client_ready THEN 0 ELSE 1)
    /\ pc = "idle" => download_only_events = 0
    /\ "download_only" \in Logged(new_logs) => pc = "parse" /\ download_only_events = 1

C13_Witness ==
    /\ pc = "ParseFailed"
    /\ ~is_client_ready
    /\ download_only_events = 1
    /\ REq(csv_progress, -1)

\* C14: a fault outside the per-item boundary (reading the manifest,
\* computing the progress of a row) aborts the run: the progress is -1, the
\* run reports failure, the row at fault and the rows after it are never
\* fetched or published, and the run ends there, without the completion
\* summary and its progress of 100.
C14_FaultOutsideItemAborts ==
    /\ [](pc \in {"Fatal", "ParseFailed"} =>
          ( /\ REq(csv_progress, -1)
            /\ run_result = "false"
            /\ Len(dataframe.rows) = pos
            /\ \A i \in DOMAIN fetches : i >= pos => (fetches[i] = 0 /\ publishes[i] = 0)))
    /\ [][ /\ (pc = "loop" /\ pos' = pos + 1 /\ ~dataframe'.rows[pos'].index.numeric)
                => pc' = "Fatal"
           /\ pc \in {"Fatal", "ParseFailed"} =>
               ( /\ pc' = "idle"
                 /\ "csv_processing_completed" \notin Logged(new_logs')
                 /\ csv_overall_progress' = csv_overall_progress )
          ]_vars

C14_Witness ==
    /\ pc = "Fatal"
    /\ pos = 2
    /\ total_csv_items = 3
    /\ fetches = <<1, 0, 0>>
    /\ REq(csv_progress, -1)
    /\ run_result = "false"

\* C15: every batch run reaches a terminal state (ParseFailed, Empty,
\* Completed, or the fatal abort), given that each fetch and each publish it
\* awaits returns.
C15_RunTerminates == Running ~> Terminal

C15_Witness ==
    /\ Terminal
    /\ pc = "Completed"
    /\ pos = MaxRows
    /\ total_csv_items = MaxRows
    /\ \A i \in 1..MaxRows : fetches[i] = 1 /\ publishes[i] = 1

\* C16: sanitizing is idempotent on its own non-fallback output, which holds
\* only alphanumeric characters, '.', '_' and '-': for every URL whose
\* sanitized name is not empty, sanitizing that name gives the name again.
C16_SanitizeIdempotent ==
    \A i \in DOMAIN san_rows :
        LET name == san_rows[i].name
        IN  ~name.fallback =>
                /\ name.text # <<>>
                /\ sanitize(name.text) = name.text
                /\ derive_filename(name.text, san_rows[i].time, san_rows[i].index) = name
                /\ \A k \in DOMAIN name.text : name.text[k] \in Alnum \cup {".", "_", "-"}

C16_Witness ==
    /\ Len(san_rows) = 2
    /\ san_rows[1].name = [fallback |-> FALSE, text |-> <<"a", ".", "a">>]
    /\ san_rows[2].name = [fallback |-> FALSE, text |-> <<"a">>]
    /\ san_rows[2].time = san_rows[1].time + 1

\* C17: the filename of an item is never empty, and two different rows of one
\* run never get the same fallback name.
C17_FallbackNamesDiffer ==
    /\ \A i \in DOMAIN san_rows : san_rows[i].name.text # <<>>
    /\ \A i, j \in DOMAIN san_rows :
            (i # j /\ san_rows[i].name.fallback /\ san_rows[j].name.fallback)
                => san_rows[i].name # san_rows[j].name

\* C18: while item k of n is being processed csv_overall_progress is 100*k/n:
\* it is advanced when the item is started, blank rows included, before the
\* fetch and the publish, and is 100 while the last item is in flight.
C18_ProgressIsPosition ==
    (pc \in {"fetch", "publish"} \/ (pc = "loop" /\ pos >= 1))
        => csv_progress = Rat(100 * pos, total_csv_items)

\* C19: an upload a browser session asks for is only ever sent through a
\* client that the same browser session's connect created, never through the
\* client of another session's later connect.
C19_UploadThroughOwnClient ==
    last_send.client # 0 => client_owner[last_send.client] = last_send.by

\* C20: a connect is not atomic. Every connect attempt leaves the client the
\* process held before disconnected and dropped, also when the attempt then
\* fails (client not constructed, unauthorized session, invalid credentials,
\* flood wait, network error), and a failed attempt leaves the requester's
\* session_active false; session_active is true after the attempt only if
\* the new client is connected and authorized.
C20_ConnectNotAtomic ==
    [][ "attempting_connect" \in Logged(new_logs') =>
          LET old == telethon_client
              succeeded == "connect_successful" \in Logged(new_logs')
              requesters == IF Len(client_owner') > Len(client_owner)
                            THEN {client_owner'[Len(client_owner')]}
                            ELSE {b \in Browsers : \A c \in Browsers \ {b} :
                                        session_active'[c] = session_active[c]}
          IN  /\ old # 0 => (~client_up'[old] /\ telethon_client' # old)
              /\ \E b \in requesters :
                    /\ session_active'[b] <=> succeeded
                    /\ session_active'[b] =>
                          /\ telethon_client' # 0
                          /\ telethon_client' # old
                          /\ client_up'[telethon_client']
                          /\ client_owner'[telethon_client'] = b
      ]_vars

C20_Witness ==
    /\ Logged(new_logs) = {"disconnecting_previous", "attempting_connect",
                           "connect_error_FloodWait"}
    /\ client_owner = <<"b1", "b1">>
    /\ client_up = <<FALSE, FALSE>>
    /\ telethon_client = 2
    /\ ~session_active["b1"]
    /\ user_info["b1"] = "user"

\* C21: a publish that passes the connected check sets upload_progress to 0
\* when it starts, and ends with exactly 100 if and only if the transfer
\* succeeded and exactly -1 if and only if it failed, whatever the progress
\* callback wrote in between and however often it was called, also never.
C21_UploadProgressEnds ==
    [][ /\ (pc = "idle" /\ pc' = "upload") =>
              /\ REq(upload_progress'[up_b'], 0)
              /\ last_send'.client # 0
        /\ (pc = "upload" /\ pc' = "idle") =>
              LET succeeded == "upload_completed" \in Logged(new_logs')
                  p == upload_progress'[up_b]
              IN  /\ REq(p, 100) <=> succeeded
                  /\ REq(p, -1) <=> ~succeeded
      ]_vars

C21_Witness ==
    /\ pc = "idle"
    /\ new_logs = <<"upload_failed">>
    /\ up_calls = MaxCalls
    /\ REq(upload_progress["b1"], -1)
    /\ session_active["b1"]
    /\ ~client_up[telethon_client]

\* C22: a disconnect always ends in the disconnected state and is idempotent:
\* after it the process holds no client, the client it held is not connected,
\* and the requester's session_active is false and its user_info removed,
\* whether or not a client existed, was connected, or raised while it was
\* disconnected; a disconnect asked for in that state changes none of it.
C22_DisconnectIdempotent ==
    [][ "disconnecting_current" \in Logged(new_logs') =>
          /\ telethon_client' = 0
          /\ telethon_client # 0 => ~client_up'[telethon_client]
          /\ \E b \in Browsers :
                /\ ~session_active'[b]
                /\ user_info'[b] = "absent"
                /\ \A c \in Browsers \ {b} :
                      session_active'[c] = session_active[c] /\ user_info'[c] = user_info[c]
                /\ (telethon_client = 0 /\ ~session_active[b] /\ user_info[b] = "absent")
                      => (globalVars' = globalVars /\ sessionVars' = sessionVars)
      ]_vars

C22_Witness ==
    /\ new_logs = <<"note_disconnect", "disconnecting_current">>
    /\ telethon_client = 0
    /\ client_owner = <<"b1">>
    /\ client_up = <<FALSE>>
    /\ ~session_active["b1"]
    /\ user_info["b1"] = "absent"

\* C23: after any sequence of add_log calls the session log holds at most
\* LogCap entries, newest first: a call puts its entry at position 0, keeps
\* the entries that were there in their order, and drops the oldest one, and
\* only that one, when the log was full.
C23_LogCappedNewestFirst ==
    /\ [](/\ Len(logs) <= LogCap
          /\ \A i \in 1..(Len(logs) - 1) : logs[i] > logs[i + 1])
    /\ [][ log_calls' = log_calls + 1 =>
              /\ logs'[1] = log_calls'
              /\ Len(logs') = Min(Len(logs) + 1, LogCap)
              /\ \A i \in 2..Len(logs') : logs'[i] = logs[i - 1]
          ]_vars

C23_Witness ==
    /\ log_calls = LogCap + 1
    /\ Len(logs) = LogCap
    /\ logs[1] = LogCap + 1
    /\ logs[LogCap] = 2

====
